---- MODULE Spec2Model ----
(***************************************************************************)
(* Model of src/auto_checkin.py: one run of main().  KurobbsClient.start() *)
(* runs the two sign actions (checkin, sign_in) one after the other, _log  *)
(* raises the aggregate KurobbsClientException, and main() notifies and    *)
(* chooses the exit status.                                                *)
(*                                                                         *)
(* Text: the module is ASCII, so every non-ASCII character of a message of *)
(* the program is written as its JSON escape (json.dumps of the message):  *)
(* "\\u7b7e" is the character U+7B7E.  ASCII characters are themselves.    *)
(***************************************************************************)
EXTENDS Integers, Sequences, FiniteSets, TLC

VARIABLES
    pc,          \* the position of main(): the next step of the run
    result,      \* KurobbsClient.result: dict, as a sequence of <<key, value>> in insertion order
    exceptions,  \* KurobbsClient.exceptions: list of the messages of the recorded exceptions
    user_game_list, \* checkin()'s local: what get_user_game_list(3) returned
    date,        \* checkin()'s local: datetime.now().month; 0 before it is read
    qmsg_token,  \* the environment's QMSG_TOKEN ("None": unset)
    debug,       \* main()'s local: os.getenv("DEBUG", False) ("False": DEBUG is unset)
    log_level,   \* the level of the logger's sink: a line below it is not written
    raised,      \* the exception in flight or caught by main(): [type, text]; type "" when none
    trace,       \* every outside effect of the run, in order: posts, gets, notifications, log lines
    exit_code    \* the process exit status; -1 while the process runs

vars == <<pc, result, exceptions, user_game_list, date, qmsg_token, debug, log_level,
          raised, trace, exit_code>>

\* ---------------------------------------------------------------- bounds

\* The longest role list the role-list endpoint answers with.
MaxRoles == 2
\* Role ids are MaxId distinct values per field.
MaxId == 2

\* ------------------------------------------------------- program constants

FIND_ROLE_LIST_API_URL == "https://api.kurobbs.com/user/role/findRoleList"
SIGN_URL == "https://api.kurobbs.com/encourage/signIn/v2"
USER_SIGN_URL == "https://api.kurobbs.com/user/signIn"
QMSG_URL == "https://qmsg.zendee.cn/send/"

\* 签到奖励签到成功
CheckinSuccessMessage == "\\u7b7e\\u5230\\u5956\\u52b1\\u7b7e\\u5230\\u6210\\u529f"
\* 签到奖励签到失败
CheckinFailureMessage == "\\u7b7e\\u5230\\u5956\\u52b1\\u7b7e\\u5230\\u5931\\u8d25"
\* 社区签到成功
SignInSuccessMessage == "\\u793e\\u533a\\u7b7e\\u5230\\u6210\\u529f"
\* 社区签到失败
SignInFailureMessage == "\\u793e\\u533a\\u7b7e\\u5230\\u5931\\u8d25"
\* 签到任务失败!
TaskFailedMessage == "\\u7b7e\\u5230\\u4efb\\u52a1\\u5931\\u8d25!"

\* ------------------------------------------------------------- the inputs

\* The calendar months datetime.now().month can be.
Months == 1..12

RoleKeys == {"gameId", "serverId", "roleId", "userId"}

\* The key sets of the role entries tried: every id present, every id absent.
RoleKeySets == {RoleKeys, {}}

\* The value of field k of the role entry number i: fields never share a value.
RoleValue(k, i) ==
    CASE k = "gameId" -> i
      [] k = "serverId" -> 100 + i
      [] k = "roleId" -> 200 + i
      [] k = "userId" -> 300 + i

\* A role entry is a dict: a function from the keys it has to their values.
Roles == { [k \in D |-> RoleValue(k, i)] : D \in RoleKeySets, i \in 1..MaxId }

RECURSIVE SeqsUpTo(_, _)
SeqsUpTo(S, n) ==
    IF n = 0 THEN {<<>>}
    ELSE LET shorter == SeqsUpTo(S, n - 1)
         IN shorter \cup { Append(s, x) : s \in { t \in shorter : Len(t) = n - 1 }, x \in S }

RoleLists == SeqsUpTo(Roles, MaxRoles)

\* Response.success is Optional[bool]
SuccessValues == {"True", "False", "None"}

\* What one call of make_request does: it raises (requests.post: RequestException;
\* Response.model_validate_json: ValidationError) or returns a Response, of which the
\* fields are code, msg, success, and data (data_none: data is None).  The program reads
\* success and data; code and msg go to the debug line alone and are 200 and "ok" here.
RaiseOutcomes ==
    { [raises |-> t, code |-> 200, msg |-> "ok", success |-> "None", data_none |-> TRUE,
       data |-> <<>>]
        : t \in {"RequestException", "ValidationError"} }

Responses(datas) ==
    { [raises |-> "", code |-> 200, msg |-> "ok", success |-> s, data_none |-> FALSE,
       data |-> d]
        : s \in SuccessValues, d \in datas }
    \cup { [raises |-> "", code |-> 200, msg |-> "ok", success |-> s, data_none |-> TRUE,
            data |-> <<>>] : s \in SuccessValues }

\* os.getenv("DEBUG", False): unset, set to the empty string, set to "0", set to "1"
DebugValues == {"False", "", "0", "1"}

\* os.getenv("QMSG_TOKEN"): unset, set to the empty string, set to a token
QmsgTokens == {"None", "", "qmsgtoken"}

\* What the Qmsg GET and the reading of its answer do.
QmsgOutcomes == {"success", "refused", "RequestException", "JSONDecodeError", "AttributeError"}

\* ------------------------------------------------------------ pure helpers

NoException == [type |-> "", text |-> ""]

\* One outside effect.  kind "post": target the url, data the form data, text how the call
\* ended ("returned" or the exception raised), answer the success field of the envelope
\* returned.  kind "get": target the url up to the query, text the message sent.  kind
\* "bark": text the message.  kind "log": target the level, text the line.
Event(kind, target, text, data, answer) ==
    [kind |-> kind, target |-> target, text |-> text, data |-> data, answer |-> answer]

NoData == [k \in {} |-> 0]

\* str.join
RECURSIVE Join(_, _)
Join(sep, strs) ==
    IF Len(strs) = 0 THEN ""
    ELSE IF Len(strs) = 1 THEN strs[1]
    ELSE strs[1] \o sep \o Join(sep, Tail(strs))

\* d[key] = value on a dict kept in insertion order
DictSet(d, key, value) ==
    IF \E i \in 1..Len(d) : d[i][1] = key
    THEN [i \in 1..Len(d) |-> IF d[i][1] = key THEN <<key, value>> ELSE d[i]]
    ELSE Append(d, <<key, value>>)

\* d.values()
DictValues(d) == [i \in 1..Len(d) |-> d[i][2]]

\* role.get(key, default)
DictGet(role, key, default) == IF key \in DOMAIN role THEN role[key] ELSE default

\* bool(resp.success)
Truthy(success) == success = "True"

DigitChars == <<"0", "1", "2", "3", "4", "5", "6", "7", "8", "9">>

\* str(n) for n >= 0
RECURSIVE Decimal(_)
Decimal(n) ==
    IF n < 10 THEN DigitChars[n + 1]
    ELSE Decimal(n \div 10) \o DigitChars[(n % 10) + 1]

\* FormatMonth without the zero padding: f"{date}"
FormatMonthNoPad(m) == Decimal(m)

\* f"{date:02d}"
FormatMonth(m) == IF Len(Decimal(m)) < 2 THEN "0" \o Decimal(m) ELSE Decimal(m)

\* Msg without the trailing "!"
MsgNoBang(res) == Join(", ", DictValues(res))

\* KurobbsClient.msg
Msg(res) == Join(", ", DictValues(res)) \o "!"

\* The data dict checkin() builds from the role list and the month.
CheckinData(list, m) ==
    [gameId |-> DictGet(list[1], "gameId", 2),
     serverId |-> DictGet(list[1], "serverId", "None"),
     roleId |-> DictGet(list[1], "roleId", 0),
     userId |-> DictGet(list[1], "userId", 0),
     reqMonth |-> FormatMonth(m)]

\* AggregateText that surfaces the first failure alone
AggregateTextFirstOnly(excs) == excs[1]

\* The text of the aggregate exception _log raises.
AggregateText(excs) == Join(", ", excs)

\* Handler with the generic clause first: it catches KurobbsClientException too
HandlerGenericOnly(type) == "except_generic"

\* Handler with every exception taken for the aggregate check-in failure
HandlerAlwaysClient(type) == "except_client"

\* main()'s except clauses: the step that handles an exception of this type.
Handler(type) == IF type = "KurobbsClientException" THEN "except_client" ELSE "except_generic"

\* The post event of make_request, with how the call ended.
PostEvent(url, data, resp) ==
    Event("post", url, IF resp.raises = "" THEN "returned" ELSE resp.raises, data,
          IF resp.raises = "" THEN resp.success ELSE "")

\* bool(debug): False and the empty string are false, every other string is true.
DebugOn(d) == d # "False" /\ d # ""

\* configure_logger(debug): the level of the sink it adds.
ConfigureLogger(d) == IF DebugOn(d) THEN "DEBUG" ELSE "INFO"

\* The severity of a level of the logger.
LevelNo(level) ==
    CASE level = "DEBUG" -> 10
      [] level = "INFO" -> 20
      [] level = "WARNING" -> 30
      [] level = "ERROR" -> 40

\* logger.debug / info / warning / error: the line is written when its level reaches
\* the level of the sink.
Logged(tr, level, text) ==
    IF LevelNo(level) >= LevelNo(log_level)
    THEN Append(tr, Event("log", level, text, NoData, ""))
    ELSE tr

\* The JSON text of Response.success
JsonBool(success) ==
    CASE success = "True" -> "true"
      [] success = "False" -> "false"
      [] success = "None" -> "null"

\* res.model_dump_json(indent=2, exclude={"data"})
ModelDumpJson(resp) ==
    "{\n  \"code\": " \o Decimal(resp.code) \o ",\n  \"msg\": \"" \o resp.msg
        \o "\",\n  \"success\": " \o JsonBool(resp.success) \o "\n}"

\* make_request(url, data) ending as resp: the post, and the debug line when the
\* envelope was parsed.
MakeRequest(tr, url, data, resp) ==
    IF resp.raises = ""
    THEN Logged(Append(tr, PostEvent(url, data, resp)), "DEBUG", ModelDumpJson(resp))
    ELSE Append(tr, PostEvent(url, data, resp))

\* _process_sign_action after action_method() returned resp: the new result dict.
ResultAfter(res, action_name, resp, success_message) ==
    IF Truthy(resp.success) THEN DictSet(res, action_name, success_message) ELSE res

\* ExceptionsAfter that puts the new failure first: exceptions.insert(0, ...)
ExceptionsAfterPrepend(excs, resp, failure_message) ==
    IF Truthy(resp.success) THEN excs ELSE <<failure_message>> \o excs

\* _process_sign_action after action_method() returned resp: the new exceptions list.
ExceptionsAfter(excs, resp, failure_message) ==
    IF Truthy(resp.success) THEN excs ELSE Append(excs, failure_message)

\* The state: the fields of KurobbsClient, the locals of checkin(), the environment,
\* the exception main() sees and the exit status.
TypeOK ==
    /\ pc \in {"main", "get_user_game_list", "checkin", "sign_in", "_log",
               "send_notifications", "except_client", "except_generic", "exit"}
    /\ \A i \in DOMAIN result :
          /\ result[i][1] \in {"checkin", "sign_in"}
          /\ result[i][2] \in {CheckinSuccessMessage, SignInSuccessMessage}
    /\ \A i \in DOMAIN exceptions :
          exceptions[i] \in {CheckinFailureMessage, SignInFailureMessage}
    /\ user_game_list.none \in BOOLEAN
    /\ user_game_list.list \in RoleLists
    /\ date \in {0} \cup Months
    /\ qmsg_token \in QmsgTokens
    /\ debug \in DebugValues
    /\ log_level \in {"DEBUG", "INFO"}
    /\ raised.type \in {"", "RequestException", "ValidationError", "TypeError",
                        "IndexError", "KurobbsClientException"}
    /\ \A i \in DOMAIN trace : trace[i].kind \in {"post", "get", "bark", "log"}
    /\ exit_code \in {-1, 0, 1}

\* ----------------------------------------------------------------- the run

\* The process starts: main() has read TOKEN and DEBUG from the environment.  The
\* logger still has its default sink, of level DEBUG.
Init ==
    /\ pc = "main"
    /\ result = <<>>
    /\ exceptions = <<>>
    /\ user_game_list = [none |-> TRUE, list |-> <<>>]
    /\ date = 0
    /\ qmsg_token \in QmsgTokens
    /\ debug \in DebugValues
    /\ log_level = "DEBUG"
    /\ raised = NoException
    /\ trace = <<>>
    /\ exit_code = -1

\* main(): configure_logger(debug=debug), then kurobbs = KurobbsClient(token)
Main ==
    /\ pc = "main"
    /\ log_level' = ConfigureLogger(debug)
    /\ result' = <<>>
    /\ exceptions' = <<>>
    /\ pc' = "get_user_game_list"
    /\ UNCHANGED <<user_game_list, date, qmsg_token, debug, raised, trace, exit_code>>

\* start() -> _process_sign_action("checkin") -> checkin() -> get_user_game_list(3)
GetUserGameList ==
    /\ pc = "get_user_game_list"
    /\ \E resp \in RaiseOutcomes \cup Responses(RoleLists) :
        /\ trace' = MakeRequest(trace, FIND_ROLE_LIST_API_URL, [gameId |-> 3], resp)
        /\ IF resp.raises # ""
           THEN /\ raised' = [type |-> resp.raises, text |-> FIND_ROLE_LIST_API_URL]
                /\ pc' = Handler(resp.raises)
                /\ UNCHANGED user_game_list
           ELSE /\ user_game_list' = [none |-> resp.data_none, list |-> resp.data]
                /\ pc' = "checkin"
                /\ UNCHANGED raised
    /\ UNCHANGED <<result, exceptions, date, qmsg_token, debug, log_level, exit_code>>

\* The rest of checkin() and of _process_sign_action("checkin").
Checkin ==
    /\ pc = "checkin"
    /\ \E month \in Months, resp \in RaiseOutcomes \cup Responses({}) :
        /\ date' = month
        /\ IF user_game_list.none
           THEN \* None[0]
                /\ raised' = [type |-> "TypeError", text |-> "user_game_list[0]"]
                /\ pc' = Handler("TypeError")
                /\ UNCHANGED <<result, exceptions, trace>>
           ELSE IF Len(user_game_list.list) = 0
           THEN \* [][0]
                /\ raised' = [type |-> "IndexError", text |-> "user_game_list[0]"]
                /\ pc' = Handler("IndexError")
                /\ UNCHANGED <<result, exceptions, trace>>
           ELSE /\ trace' = MakeRequest(trace, SIGN_URL,
                                     CheckinData(user_game_list.list, month), resp)
                /\ IF resp.raises # ""
                   THEN /\ raised' = [type |-> resp.raises, text |-> SIGN_URL]
                        /\ pc' = Handler(resp.raises)
                        /\ UNCHANGED <<result, exceptions>>
                   ELSE /\ result' = ResultAfter(result, "checkin", resp, CheckinSuccessMessage)
                        /\ exceptions' = ExceptionsAfter(exceptions, resp, CheckinFailureMessage)
                        /\ pc' = "sign_in"
                        /\ UNCHANGED raised
    /\ UNCHANGED <<user_game_list, qmsg_token, debug, log_level, exit_code>>

\* _process_sign_action("sign_in") with sign_in()
SignIn ==
    /\ pc = "sign_in"
    /\ \E resp \in RaiseOutcomes \cup Responses({}) :
        /\ trace' = MakeRequest(trace, USER_SIGN_URL, [gameId |-> 2], resp)
        /\ IF resp.raises # ""
           THEN /\ raised' = [type |-> resp.raises, text |-> USER_SIGN_URL]
                /\ pc' = Handler(resp.raises)
                /\ UNCHANGED <<result, exceptions>>
           ELSE /\ result' = ResultAfter(result, "sign_in", resp, SignInSuccessMessage)
                /\ exceptions' = ExceptionsAfter(exceptions, resp, SignInFailureMessage)
                /\ pc' = "_log"
                /\ UNCHANGED raised
    /\ UNCHANGED <<user_game_list, date, qmsg_token, debug, log_level, exit_code>>

\* _log()
Log ==
    /\ pc = "_log"
    /\ trace' = IF Msg(result) # ""
                THEN Logged(trace, "INFO", Msg(result))
                ELSE trace
    /\ IF Len(exceptions) > 0
       THEN /\ raised' = [type |-> "KurobbsClientException", text |-> AggregateText(exceptions)]
            /\ pc' = Handler("KurobbsClientException")
       ELSE /\ pc' = "send_notifications"
            /\ UNCHANGED raised
    /\ UNCHANGED <<result, exceptions, user_game_list, date, qmsg_token, debug, log_level, exit_code>>

\* send_bark_notification(message): the primary notifier is called with the message.
SendBark(tr, message) == Append(tr, Event("bark", "bark", message, NoData, ""))

\* SendQmsg that skips only an unset token: if qmsg_token is None
SendQmsgNoneOnly(tr, message, token, outcome) ==
    IF token = "None"
    THEN Logged(tr, "WARNING", "skip Qmsg")
    ELSE LET got == Append(tr, Event("get", QMSG_URL \o token, message, NoData, ""))
         IN IF outcome = "success"
            THEN Logged(got, "INFO", "Qmsg sent")
            ELSE Logged(got, "ERROR", "Qmsg: " \o outcome)

\* send_qmsg_notification(message, qmsg_token), the GET and its answer ending as outcome.
SendQmsg(tr, message, token, outcome) ==
    IF token = "None" \/ token = ""
    THEN Logged(tr, "WARNING", "skip Qmsg")
    ELSE LET got == Append(tr, Event("get", QMSG_URL \o token, message, NoData, ""))
         IN IF outcome = "success"
            THEN Logged(got, "INFO", "Qmsg sent")
            ELSE Logged(got, "ERROR", "Qmsg: " \o outcome)

\* NotificationsSent with the two channels in the other order
NotificationsSentQmsgFirst(tr, message, token, outcome) ==
    SendBark(SendQmsg(tr, message, token, outcome), message)

\* send_notifications(message), with os.getenv("QMSG_TOKEN") giving token.
NotificationsSent(tr, message, token, outcome) ==
    SendQmsg(SendBark(tr, message), message, token, outcome)

\* main() after start() returned: if kurobbs.msg: send_notifications(kurobbs.msg); then
\* main() returns and the process ends with status 0.
SendNotifications ==
    /\ pc = "send_notifications"
    /\ \E outcome \in QmsgOutcomes :
        trace' = IF Msg(result) # ""
                 THEN NotificationsSent(trace, Msg(result), qmsg_token, outcome)
                 ELSE trace
    /\ pc' = "exit"
    /\ exit_code' = 0
    /\ UNCHANGED <<result, exceptions, user_game_list, date, qmsg_token, debug, log_level, raised>>

\* except KurobbsClientException as e
ExceptClient ==
    /\ pc = "except_client"
    /\ trace' = SendBark(Logged(trace, "ERROR", raised.text),
                         TaskFailedMessage)
    /\ pc' = "exit"
    /\ exit_code' = 1
    /\ UNCHANGED <<result, exceptions, user_game_list, date, qmsg_token, debug, log_level, raised>>

\* ExceptGeneric that sends the failure notification as the other clause does
ExceptGenericNotifies ==
    /\ pc = "except_generic"
    /\ trace' = SendBark(Logged(trace, "ERROR",
                    "An unexpected error occurred: " \o raised.type), TaskFailedMessage)
    /\ pc' = "exit"
    /\ exit_code' = 1
    /\ UNCHANGED <<result, exceptions, user_game_list, date, qmsg_token, debug, log_level, raised>>

\* except Exception as e
ExceptGeneric ==
    /\ pc = "except_generic"
    /\ trace' = Logged(trace, "ERROR", "An unexpected error occurred: " \o raised.type)
    /\ pc' = "exit"
    /\ exit_code' = 1
    /\ UNCHANGED <<result, exceptions, user_game_list, date, qmsg_token, debug, log_level, raised>>

Next ==
    \/ Main
    \/ GetUserGameList
    \/ Checkin
    \/ SignIn
    \/ Log
    \/ SendNotifications
    \/ ExceptClient
    \/ ExceptGeneric

Spec == Init /\ [][Next]_vars

\* ------------------------------------------------------- reading the trace

PostIdx(url) == { i \in DOMAIN trace : trace[i].kind = "post" /\ trace[i].target = url }

\* The posts to url that returned an envelope.
ReturnedIdx(url) == { i \in PostIdx(url) : trace[i].text = "returned" }

\* The posts that ended in a transport or envelope-parse error.
ErrorIdx ==
    { i \in DOMAIN trace : trace[i].kind = "post"
                           /\ trace[i].text \in {"RequestException", "ValidationError"} }

BarkIdx == { i \in DOMAIN trace : trace[i].kind = "bark" }

GetIdx == { i \in DOMAIN trace : trace[i].kind = "get" }

\* send_qmsg_notification was called: it sent its GET or logged that it skips.
QmsgIdx ==
    { i \in DOMAIN trace : trace[i].kind = "get"
                           \/ (trace[i].kind = "log" /\ trace[i].target = "WARNING") }

InfoIdx == { i \in DOMAIN trace : trace[i].kind = "log" /\ trace[i].target = "INFO" }

\* The action's call returned an envelope whose success is not true.
Failed(url) == \E i \in ReturnedIdx(url) : trace[i].answer # "True"

\* The action's call returned an envelope whose success is true.
Succeeded(url) == \E i \in ReturnedIdx(url) : trace[i].answer = "True"

BothReturned == ReturnedIdx(SIGN_URL) # {} /\ ReturnedIdx(USER_SIGN_URL) # {}

\* How many of the two actions returned an envelope whose success is not true.
FailedCount ==
    (IF Failed(SIGN_URL) THEN 1 ELSE 0) + (IF Failed(USER_SIGN_URL) THEN 1 ELSE 0)

\* f"{m:02d}" for the twelve months, written out.
MonthText == <<"01", "02", "03", "04", "05", "06", "07", "08", "09", "10", "11", "12">>

\* ------------------------------------------------------------------ claims

\* C1: once checkin's call has returned an envelope, whatever its success, sign_in is
\* attempted next, and never before checkin; every envelope whose success is not true
\* is recorded as a failure, and the aggregate error start() raises carries all the
\* recorded failures, not the first alone.
C1_BothAttemptedAllSurfaced ==
    /\ \A j \in PostIdx(USER_SIGN_URL) : \E i \in ReturnedIdx(SIGN_URL) : i < j
    /\ ReturnedIdx(SIGN_URL) # {} => (pc = "sign_in" \/ PostIdx(USER_SIGN_URL) # {})
    /\ Len(exceptions) = FailedCount
    /\ (BothReturned /\ FailedCount > 0 /\ pc # "_log") =>
            /\ raised.type = "KurobbsClientException"
            /\ raised.text = Join(", ", exceptions)

\* C1's case: checkin failed, sign_in was attempted all the same and failed too, and
\* start() raised.
C1_Witness ==
    /\ pc = "except_client"
    /\ Failed(SIGN_URL)
    /\ Failed(USER_SIGN_URL)
    /\ Len(exceptions) = 2

\* C2: when both actions returned and one or both envelopes have success not true,
\* start() raises KurobbsClientException whose text is the failure messages of the
\* failed actions in call order joined by ", "; the message built from the success
\* messages is logged at info level before the error reaches main().
C2_AggregateErrorText ==
    (BothReturned /\ FailedCount > 0 /\ pc # "_log") =>
        /\ pc \in {"except_client", "exit"}
        /\ raised.type = "KurobbsClientException"
        /\ raised.text =
              IF Failed(SIGN_URL) /\ Failed(USER_SIGN_URL)
              THEN "\\u7b7e\\u5230\\u5956\\u52b1\\u7b7e\\u5230\\u5931\\u8d25, \\u793e\\u533a\\u7b7e\\u5230\\u5931\\u8d25"
              ELSE IF Failed(SIGN_URL)
              THEN "\\u7b7e\\u5230\\u5956\\u52b1\\u7b7e\\u5230\\u5931\\u8d25"
              ELSE "\\u793e\\u533a\\u7b7e\\u5230\\u5931\\u8d25"
        /\ \E i \in InfoIdx :
              /\ trace[i].text =
                    IF Failed(SIGN_URL) /\ Failed(USER_SIGN_URL)
                    THEN "!"
                    ELSE IF Failed(SIGN_URL)
                    THEN "\\u793e\\u533a\\u7b7e\\u5230\\u6210\\u529f!"
                    ELSE "\\u7b7e\\u5230\\u5956\\u52b1\\u7b7e\\u5230\\u6210\\u529f!"
              /\ \A j \in DOMAIN trace : (j > i) => trace[j].kind \in {"log", "bark"}
              /\ \A j \in DOMAIN trace : (j < i) =>
                    \/ trace[j].kind = "post"
                    \/ (trace[j].kind = "log" /\ trace[j].target = "DEBUG")

\* C2's case: checkin failed, sign_in succeeded, its success message was logged and
\* start() raised the aggregate error.
C2_Witness ==
    /\ pc = "except_client"
    /\ Failed(SIGN_URL)
    /\ Succeeded(USER_SIGN_URL)
    /\ raised.type = "KurobbsClientException"
    /\ \E i \in InfoIdx : trace[i].text = "\\u793e\\u533a\\u7b7e\\u5230\\u6210\\u529f!"

\* C3: when both envelopes have success true, msg is the two success messages in call
\* order joined by ", " with a trailing "!", it is what _log logs, no failure is
\* recorded and start() raises nothing.
C3_BothSucceedMessage ==
    (Succeeded(SIGN_URL) /\ Succeeded(USER_SIGN_URL)) =>
        /\ Msg(result) = "\\u7b7e\\u5230\\u5956\\u52b1\\u7b7e\\u5230\\u6210\\u529f, \\u793e\\u533a\\u7b7e\\u5230\\u6210\\u529f!"
        /\ exceptions = <<>>
        /\ raised = NoException
        /\ pc \in {"_log", "send_notifications", "exit"}
        /\ pc # "_log" =>
              \E i \in InfoIdx : trace[i].text = "\\u7b7e\\u5230\\u5956\\u52b1\\u7b7e\\u5230\\u6210\\u529f, \\u793e\\u533a\\u7b7e\\u5230\\u6210\\u529f!"

\* C3's case: both actions succeeded and start() has returned to main().
C3_Witness ==
    /\ pc = "send_notifications"
    /\ Succeeded(SIGN_URL)
    /\ Succeeded(USER_SIGN_URL)

\* C4: when the run ended after start() raised the aggregate error, the primary
\* notifier was called once, with "签到任务失败!", send_qmsg_notification was never
\* called, and the exit status is 1.
C4_FailurePathNotification ==
    (pc = "exit" /\ raised.type = "KurobbsClientException") =>
        /\ Cardinality(BarkIdx) = 1
        /\ \A b \in BarkIdx : trace[b].text = "\\u7b7e\\u5230\\u4efb\\u52a1\\u5931\\u8d25!"
        /\ QmsgIdx = {}
        /\ exit_code = 1

\* C4's case: the run ended on the aggregate-failure path with QMSG_TOKEN configured.
C4_Witness ==
    /\ pc = "exit"
    /\ raised.type = "KurobbsClientException"
    /\ qmsg_token = "qmsgtoken"
    /\ BarkIdx # {}

\* C5: when the run ended and both actions had succeeded, the primary notifier was
\* called exactly once, with the combined message, before send_qmsg_notification did
\* anything, and the exit status is 0; the exit status is 1 only when an exception
\* reached main(), and it is never anything but 0 or 1 at the end.
C5_SuccessPathNotification ==
    /\ (pc = "exit" /\ Succeeded(SIGN_URL) /\ Succeeded(USER_SIGN_URL)) =>
            /\ Cardinality(BarkIdx) = 1
            /\ \A b \in BarkIdx :
                  /\ trace[b].text = "\\u7b7e\\u5230\\u5956\\u52b1\\u7b7e\\u5230\\u6210\\u529f, \\u793e\\u533a\\u7b7e\\u5230\\u6210\\u529f!"
                  /\ \A q \in QmsgIdx : b < q
            /\ QmsgIdx # {}
            /\ exit_code = 0
    /\ pc = "exit" => exit_code \in {0, 1}
    /\ exit_code = 1 => raised.type # ""
    /\ exit_code = 0 => raised.type = ""

\* C5's case: the run ended on the success path and the Qmsg GET was sent.
C5_Witness ==
    /\ pc = "exit"
    /\ Succeeded(SIGN_URL)
    /\ Succeeded(USER_SIGN_URL)
    /\ GetIdx # {}
    /\ BarkIdx # {}

\* C6: a platform post that ends in a transport or parse error is the last post of the
\* run (no retry, no further action), records no failure and no result, reaches main()
\* as that exception, and the run ends with status 1 and no notification on any channel.
C6_TransportErrorAborts ==
    /\ \A url \in {FIND_ROLE_LIST_API_URL, SIGN_URL, USER_SIGN_URL} :
            Cardinality(PostIdx(url)) <= 1
    /\ \A i \in ErrorIdx :
            /\ \A j \in DOMAIN trace : (j > i) => trace[j].kind = "log"
            /\ BarkIdx = {}
            /\ QmsgIdx = {}
            /\ raised.type = trace[i].text
            /\ Len(exceptions) = FailedCount
            /\ Len(result) = Cardinality({ u \in {SIGN_URL, USER_SIGN_URL} : Succeeded(u) })
            /\ pc \in {"except_generic", "exit"}
            /\ pc = "exit" => exit_code = 1

\* C6's case: checkin returned a failure envelope, the sign_in post ended in a parse
\* error, and the run has ended.
C6_Witness ==
    /\ pc = "exit"
    /\ Failed(SIGN_URL)
    /\ \E i \in ErrorIdx : trace[i].target = USER_SIGN_URL /\ trace[i].text = "ValidationError"

\* C7: with QMSG_TOKEN unset or empty no GET is sent; when the GET is sent, whatever
\* it or the reading of its answer raises is logged and nothing else: no exception
\* reaches main() and the run ends with status 0.
C7_QmsgErrorsSwallowed ==
    /\ qmsg_token \in {"None", ""} => GetIdx = {}
    /\ (qmsg_token \in {"None", ""} /\ pc = "exit" /\ raised.type = "") =>
            /\ trace[Len(trace)].kind = "log"
            /\ trace[Len(trace)].target = "WARNING"
            /\ exit_code = 0
    /\ \A g \in GetIdx :
            /\ g + 1 = Len(trace)
            /\ trace[g + 1].kind = "log"
            /\ trace[g + 1].target \in {"INFO", "ERROR"}
            /\ raised = NoException
            /\ pc = "exit"
            /\ exit_code = 0

\* C7's case: the token is set, the GET raised, and the run ended.
C7_Witness ==
    /\ pc = "exit"
    /\ GetIdx # {}
    /\ trace[Len(trace)].target = "ERROR"
    /\ trace[Len(trace)].text = "Qmsg: RequestException"

\* C8: once the role-list lookup has returned an empty list and checkin() has run, no
\* post went to the check-in endpoint and the failure is a recoverable one: the run
\* was not ended by an exception other than the aggregate check-in error.
C8_EmptyRoleListRecoverable ==
    (~user_game_list.none /\ Len(user_game_list.list) = 0
        /\ pc \notin {"get_user_game_list", "checkin"}) =>
        /\ PostIdx(SIGN_URL) = {}
        /\ raised.type \in {"", "NoRoleFound", "KurobbsClientException"}
        /\ pc # "except_generic"

\* C9: every post to the check-in endpoint comes after the role-list lookup returned,
\* carries the ids of the first entry of the role list, and carries the month as two
\* decimal digits, zero-padded.
C9_CheckinPayload ==
    \A i \in PostIdx(SIGN_URL) :
        /\ \E j \in ReturnedIdx(FIND_ROLE_LIST_API_URL) : j < i
        /\ Len(user_game_list.list) > 0
        /\ DOMAIN trace[i].data = RoleKeys \cup {"reqMonth"}
        /\ \A k \in DOMAIN user_game_list.list[1] :
              trace[i].data[k] = user_game_list.list[1][k]
        /\ date \in Months
        /\ trace[i].data.reqMonth = MonthText[date]
        /\ Len(trace[i].data.reqMonth) = 2

\* C9's case: month 7, a list of two different role entries, the check-in post made.
C9_Witness ==
    /\ date = 7
    /\ Len(user_game_list.list) = 2
    /\ user_game_list.list[1] # user_game_list.list[2]
    /\ DOMAIN user_game_list.list[1] = RoleKeys
    /\ \E i \in PostIdx(SIGN_URL) : trace[i].data.reqMonth = "07"

\* C10: in a run the primary notifier is called at most once and only after both
\* actions' calls returned, the failure notice and a success message are never both
\* sent, and send_qmsg_notification is called at most once.
C10_NotifyAtMostOnce ==
    /\ Cardinality(BarkIdx) <= 1
    /\ \A b \in BarkIdx :
            /\ \E i \in ReturnedIdx(SIGN_URL) : i < b
            /\ \E i \in ReturnedIdx(USER_SIGN_URL) : i < b
    /\ ~ /\ \E b \in BarkIdx : trace[b].text = "\\u7b7e\\u5230\\u4efb\\u52a1\\u5931\\u8d25!"
         /\ \E b \in BarkIdx : trace[b].text # "\\u7b7e\\u5230\\u4efb\\u52a1\\u5931\\u8d25!"
    /\ Cardinality(QmsgIdx) <= 1
    /\ Cardinality(GetIdx) <= 1

\* C10's case: the run ended with both channels used.
C10_Witness ==
    /\ pc = "exit"
    /\ Cardinality(BarkIdx) = 1
    /\ Cardinality(GetIdx) = 1

====
